---- MODULE Spec2Model ----
(***************************************************************************)
(* A model of minikin's optimal line breaker (OptimalLineBreaker.cpp) and  *)
(* of its locale tag (FontLanguage.cpp).                                   *)
(*                                                                         *)
(* Offsets into the text are 0-based as in the source; TLA+ sequences are  *)
(* 1-based, so the code's a[k] is written At(a, k).                        *)
(*                                                                         *)
(* Widths and scores are integers.  The source's score constants 1e10 and  *)
(* 1e12 are kept in their ratio (1 : 100) at a scale on which every width  *)
(* score and penalty of the bounded model stays below SCORE_DESPERATE, as  *)
(* the source requires of them ("larger than any reasonable actual width   *)
(* score").  Vertical extents and the bidi direction are copied through by *)
(* the source and decide nothing; they are left out.                       *)
(***************************************************************************)
EXTENDS Integers, Sequences, FiniteSets, TLC

VARIABLES
    pc,          \* position of breakLineOptimal / of the locale operations
    input,       \* the arguments of breakLineOptimal (text, measured, lineWidth, ...)
    proc,        \* CharProcessor
    loop,        \* populateCandidates' loop: [i, run, hyphenPenalty]
    context,     \* OptimizeContext: [candidates, linePenalty, spaceWidth]
    opt,         \* computeBreaks: [i, active, breaksData]
    result,      \* LineBreakResult: [breakPoints, widths, flags]
    tag          \* FontLanguage under construction / its string

vars == <<pc, input, proc, loop, context, opt, result, tag>>

----------------------------------------------------------------------------
(* Bounds of the model *)

MaxLen == 3
MaxHyphensPerWord == 1

----------------------------------------------------------------------------
(* Helpers *)

At(s, k) == s[k + 1]

Last(s) == s[Len(s)]

Min(a, b) == IF a <= b THEN a ELSE b

Max(a, b) == IF a >= b THEN a ELSE b

RECURSIVE SumRange(_, _, _)
\* sum of w[a], ..., w[b-1] (0-based, half open)
SumRange(w, a, b) == IF a >= b THEN 0 ELSE At(w, a) + SumRange(w, a + 1, b)

RECURSIVE Reverse(_)
Reverse(s) == IF s = <<>> THEN <<>> ELSE Append(Reverse(Tail(s)), Head(s))

----------------------------------------------------------------------------
(* Characters (minikin/Characters.h, LayoutUtils.h, LineBreakerUtil.h) *)

CHAR_TAB == 9
CHAR_NL == 10
CHAR_SPACE == 32
CHAR_a == 97
CHAR_NBSP == 160
CHAR_EN_SPACE == 8194

isWordSpace(c) == c = CHAR_SPACE \/ c = CHAR_NBSP

isLineEndSpace(c) ==
    \/ c = CHAR_NL
    \/ c = CHAR_SPACE
    \/ c = 5760
    \/ (8192 <= c /\ c <= 8202 /\ c # 8199)
    \/ c = 8287
    \/ c = 12288

----------------------------------------------------------------------------
(* Score constants, OptimalLineBreaker.cpp:39-56 *)

SCORE_DESPERATE == 100000
SCORE_OVERFULL == 100 * SCORE_DESPERATE
SCORE_INFTY == 2000000000
LAST_LINE_PENALTY_MULTIPLIER == 4
LINE_PENALTY_MULTIPLIER == 2
SHRINK_PENALTY_MULTIPLIER == 4
\* SHRINKABILITY is 1/3: a product with it is written as a division by this
SHRINKABILITY_DENOM == 3

DONT_BREAK == "DONT_BREAK"
BREAK_AND_INSERT_HYPHEN == "BREAK_AND_INSERT_HYPHEN"
BREAK_AND_DONT_INSERT_HYPHEN == "BREAK_AND_DONT_INSERT_HYPHEN"

Candidate(offset, preBreak, postBreak, penalty, preSpaceCount, postSpaceCount, hyphenType) ==
    [offset |-> offset, preBreak |-> preBreak, postBreak |-> postBreak,
     penalty |-> penalty, preSpaceCount |-> preSpaceCount,
     postSpaceCount |-> postSpaceCount, hyphenType |-> hyphenType]

pushDesperate(candidates, offset, sumOfCharWidths, spaceCount) ==
    Append(candidates, Candidate(offset, sumOfCharWidths, sumOfCharWidths, SCORE_DESPERATE,
                                 spaceCount, spaceCount, BREAK_AND_DONT_INSERT_HYPHEN))

pushHyphenation(candidates, offset, preBreak, postBreak, penalty, spaceCount, type) ==
    Append(candidates, Candidate(offset, preBreak, postBreak, penalty,
                                 spaceCount, spaceCount, type))

\* preBreak and postBreak taken for each other
pushWordBreakSwapped(candidates, offset, preBreak, postBreak, penalty, preSpaceCount, postSpaceCount) ==
    Append(candidates, Candidate(offset, postBreak, preBreak, penalty,
                                 preSpaceCount, postSpaceCount, DONT_BREAK))

pushWordBreak(candidates, offset, preBreak, postBreak, penalty, preSpaceCount, postSpaceCount) ==
    Append(candidates, Candidate(offset, preBreak, postBreak, penalty,
                                 preSpaceCount, postSpaceCount, DONT_BREAK))

\* OptimizeContext(): the sentinel at offset 0
NewOptimizeContext ==
    [candidates |-> <<Candidate(0, 0, 0, 0, 0, 0, DONT_BREAK)>>,
     linePenalty |-> 0, spaceWidth |-> 0]

----------------------------------------------------------------------------
(* External inputs of breakLineOptimal *)

\* Range::contains(Range)
RangeContains(outer, inner) == outer.start <= inner.start /\ inner.end <= outer.end

\* LineWidth::getAt, LineWidth::getMin: a first line width and a width for the rest
getAt(lineWidth, lineNo) == IF lineNo = 0 THEN lineWidth.first ELSE lineWidth.rest

getMin(lineWidth) == Min(lineWidth.first, lineWidth.rest)

HyphenationFrequency == {"None", "Normal", "Full"}

BreakStrategy == {"HighQuality", "Balanced"}

----------------------------------------------------------------------------
(* populateCandidates and what it calls *)

\* computePenalties: <<hyphenPenalty, linePenalty>>.  paintSize is
\* paint->size * paint->scaleX; the inputs keep the products integral.
computePenalties(paintSize, lineWidth, frequency, justified) ==
    LET base == (paintSize * getAt(lineWidth, 0)) \div 2
        hyphenPenalty == IF frequency = "Normal" THEN base * 4 ELSE base
    IN  IF justified
        THEN <<hyphenPenalty \div 4, 0>>
        ELSE <<hyphenPenalty, hyphenPenalty * LINE_PENALTY_MULTIPLIER>>

\* CharProcessor(text)
NewCharProcessor ==
    [rawSpaceCount |-> 0, effectiveSpaceCount |-> 0, sumOfCharWidths |-> 0,
     effectiveWidth |-> 0, sumOfCharWidthsAtPrevWordBreak |-> 0,
     nextWordBreak |-> 0, prevWordBreak |-> 0, spaceWidth |-> 0,
     localeListId |-> 0]

contextRange(p) == [start |-> p.prevWordBreak, end |-> p.nextWordBreak]

widthFromLastWordBreak(p) == p.effectiveWidth - p.sumOfCharWidthsAtPrevWordBreak

\* CharProcessor::updateLocaleIfNecessary; following is what
\* breaker.followingWithLocale(locale, run.start) returns
updateLocaleIfNecessary(p, run, following) ==
    IF p.localeListId # run.localeListId
    THEN [p EXCEPT !.nextWordBreak = following, !.localeListId = run.localeListId]
    ELSE p

\* MINIKIN_ASSERT(cond, ...): execution goes on only when cond holds, and the
\* paragraph fails otherwise
MINIKIN_ASSERT(cond) == cond

\* the assertion dropped
feedCharAcceptsAll(c) == MINIKIN_ASSERT(TRUE)

\* the assertion of CharProcessor::feedChar
feedCharAccepts(c) == MINIKIN_ASSERT(c # CHAR_TAB)

\* the line-end spaces counted into effectiveWidth like any character
feedCharKeepingSpaces(p, idx, c, w, next) ==
    LET p1 == IF idx = p.nextWordBreak
              THEN [p EXCEPT !.prevWordBreak = p.nextWordBreak,
                             !.nextWordBreak = next,
                             !.sumOfCharWidthsAtPrevWordBreak = p.sumOfCharWidths]
              ELSE p
        p2 == IF isWordSpace(c)
              THEN [p1 EXCEPT !.rawSpaceCount = @ + 1, !.spaceWidth = w]
              ELSE p1
        p3 == [p2 EXCEPT !.sumOfCharWidths = @ + w]
    IN  [p3 EXCEPT !.effectiveSpaceCount = IF isLineEndSpace(c) THEN @ ELSE p3.rawSpaceCount,
                   !.effectiveWidth = p3.sumOfCharWidths]

\* CharProcessor::feedChar after its assertion; next is what breaker.next() returns
feedChar(p, idx, c, w, next) ==
    LET p1 == IF idx = p.nextWordBreak
              THEN [p EXCEPT !.prevWordBreak = p.nextWordBreak,
                             !.nextWordBreak = next,
                             !.sumOfCharWidthsAtPrevWordBreak = p.sumOfCharWidths]
              ELSE p
        p2 == IF isWordSpace(c)
              THEN [p1 EXCEPT !.rawSpaceCount = @ + 1, !.spaceWidth = w]
              ELSE p1
        p3 == [p2 EXCEPT !.sumOfCharWidths = @ + w]
    IN  IF isLineEndSpace(c)
        THEN p3
        ELSE [p3 EXCEPT !.effectiveSpaceCount = p3.rawSpaceCount,
                        !.effectiveWidth = p3.sumOfCharWidths]

RECURSIVE HyphenationLoop(_, _, _, _, _)
\* the loop of populateHyphenationPoints over the word; hyph[i] is
\* [type, first, second]: hyphenate()'s answer at i and the two pieces the
\* run measures there
HyphenationLoop(hyph, i, end, ctx, out) ==
    IF i >= end THEN out
    ELSE IF hyph[i].type = DONT_BREAK
         THEN HyphenationLoop(hyph, i + 1, end, ctx, out)
         ELSE HyphenationLoop(hyph, i + 1, end, ctx,
                 Append(out, [offset |-> i, type |-> hyph[i].type,
                              first |-> hyph[i].first, second |-> hyph[i].second]))

populateHyphenationPoints(run, ctx, wordRange, hyph) ==
    IF ~RangeContains(run, ctx) \/ ~RangeContains(ctx, wordRange)
    THEN <<>>
    ELSE HyphenationLoop(hyph, wordRange.start, wordRange.end, ctx, <<>>)

RECURSIVE DesperateLoop(_, _, _, _, _)
DesperateLoop(widths, i, end, width, out) ==
    IF i >= end THEN out
    ELSE IF At(widths, i) = 0
         THEN DesperateLoop(widths, i + 1, end, width, out)
         ELSE DesperateLoop(widths, i + 1, end, width + At(widths, i),
                            Append(out, [offset |-> i, sumOfChars |-> width]))

populateDesperatePoints(widths, range) ==
    DesperateLoop(widths, range.start + 1, range.end, At(widths, range.start), <<>>)

\* the test of appendWithMerging's loop: take the desperate break next
desperateFirst(hyphens, h, desperates, d) ==
    d <= Len(desperates) /\ (h > Len(hyphens) \/ desperates[d].offset <= hyphens[h].offset)

RECURSIVE MergeLoop(_, _, _, _, _, _, _)
MergeLoop(hyphens, h, desperates, d, p, hyphenPenalty, out) ==
    IF h > Len(hyphens) /\ d > Len(desperates) THEN out
    ELSE IF desperateFirst(hyphens, h, desperates, d)
         THEN MergeLoop(hyphens, h, desperates, d + 1, p, hyphenPenalty,
                 pushDesperate(out, desperates[d].offset,
                               p.sumOfCharWidthsAtPrevWordBreak + desperates[d].sumOfChars,
                               p.effectiveSpaceCount))
         ELSE MergeLoop(hyphens, h + 1, desperates, d, p, hyphenPenalty,
                 pushHyphenation(out, hyphens[h].offset,
                                 p.sumOfCharWidths - hyphens[h].second,
                                 p.sumOfCharWidthsAtPrevWordBreak + hyphens[h].first,
                                 hyphenPenalty, p.effectiveSpaceCount, hyphens[h].type))

appendWithMerging(hyphens, desperates, p, hyphenPenalty, candidates) ==
    MergeLoop(hyphens, 1, desperates, 1, p, hyphenPenalty, candidates)

\* the test left out
wordBreakAllowedAnywhere(nextCharOffset, run, widths) == TRUE

\* the test before pushWordBreak in populateCandidates
wordBreakAllowed(nextCharOffset, run, widths) ==
    nextCharOffset = run.end \/ At(widths, nextCharOffset) > 0

----------------------------------------------------------------------------
(* LineBreakOptimizer::computeBreaks *)

\* the left edge taken when the line number of j selects another width
refreshedLeftEdge(postBreak, width, widthNew) == postBreak - width

\* the bestHope test that skips a predecessor
hopeless(jScore, bestHope, best) == jScore + bestHope >= best

\* maxShrink * (candidates[i].postSpaceCount - candidates[j].preSpaceCount) > -delta,
\* with maxShrink = SHRINKABILITY * spaceWidth; the count is a uint32_t, so a
\* negative difference wraps to a count above any width of the model
canShrink(delta, spaceWidth, postSpaceCount, preSpaceCount) ==
    LET count == postSpaceCount - preSpaceCount
    IN  IF count < 0
        THEN spaceWidth > 0
        ELSE SHRINKABILITY_DENOM * (-delta) < spaceWidth * count

\* the hyphen of the last line charged at half its multiplier
lineScoreHalfLastLine(k, j, delta) ==
    LET atEnd == k.i = Len(k.candidates) - 1
    IN  IF (atEnd \/ ~k.justified) /\ delta < 0
        THEN [widthScore |-> SCORE_OVERFULL, additionalPenalty |-> 0]
        ELSE IF atEnd /\ k.strategy # "Balanced"
        THEN [widthScore |-> 0,
              additionalPenalty |->
                  (LAST_LINE_PENALTY_MULTIPLIER \div 2) * At(k.candidates, j).penalty]
        ELSE IF delta < 0
        THEN IF canShrink(delta, k.spaceWidth, At(k.candidates, k.i).postSpaceCount,
                          At(k.candidates, j).preSpaceCount)
             THEN [widthScore |-> delta * delta * SHRINK_PENALTY_MULTIPLIER,
                   additionalPenalty |-> 0]
             ELSE [widthScore |-> SCORE_OVERFULL, additionalPenalty |-> 0]
        ELSE [widthScore |-> delta * delta, additionalPenalty |-> 0]

\* widthScore and additionalPenalty of the line from candidate j to candidate i
lineScore(k, j, delta) ==
    LET atEnd == k.i = Len(k.candidates) - 1
    IN  IF (atEnd \/ ~k.justified) /\ delta < 0
        THEN [widthScore |-> SCORE_OVERFULL, additionalPenalty |-> 0]
        ELSE IF atEnd /\ k.strategy # "Balanced"
        THEN [widthScore |-> 0,
              additionalPenalty |-> LAST_LINE_PENALTY_MULTIPLIER * At(k.candidates, j).penalty]
        ELSE IF delta < 0
        THEN IF canShrink(delta, k.spaceWidth, At(k.candidates, k.i).postSpaceCount,
                          At(k.candidates, j).preSpaceCount)
             THEN [widthScore |-> delta * delta * SHRINK_PENALTY_MULTIPLIER,
                   additionalPenalty |-> 0]
             ELSE [widthScore |-> SCORE_OVERFULL, additionalPenalty |-> 0]
        ELSE [widthScore |-> delta * delta, additionalPenalty |-> 0]

\* the new best of the inner loop
better(score, best) == score <= best

\* the bound taken back to 0 by a line that fits
advanceActiveOrReset(active, j, delta) == IF delta < 0 THEN j + 1 ELSE 0

\* a slip in the sign of the test on delta
advanceActiveFlipped(active, j, delta) == IF delta > 0 THEN j + 1 ELSE active

\* the active lower bound after scoring j
advanceActive(active, j, delta) == IF delta < 0 THEN j + 1 ELSE active

RECURSIVE InnerLoop(_, _, _)
\* the loop over j of computeBreaks; k holds what the loop only reads, and
\* a.scored records each j that gets a score, with the line number and the
\* delta it is scored with
InnerLoop(k, j, a) ==
    IF j >= k.i THEN a
    ELSE
        LET lineNumber == At(k.breaksData, j).lineNumber
            widthNew == getAt(k.lineWidth, lineNumber)
            a1 == IF lineNumber # a.lineNumberLast
                  THEN IF widthNew # a.width
                       THEN [a EXCEPT !.leftEdge = refreshedLeftEdge(
                                                      At(k.candidates, k.i).postBreak,
                                                      a.width, widthNew),
                                      !.bestHope = 0,
                                      !.width = widthNew,
                                      !.lineNumberLast = lineNumber]
                       ELSE [a EXCEPT !.lineNumberLast = lineNumber]
                  ELSE a
            jScore == At(k.breaksData, j).score
        IN  IF hopeless(jScore, a1.bestHope, a1.best)
            THEN InnerLoop(k, j + 1, a1)
            ELSE
                LET delta == At(k.candidates, j).preBreak - a1.leftEdge
                    s == lineScore(k, j, delta)
                    a2 == [a1 EXCEPT !.active = advanceActive(a1.active, j, delta),
                                     !.bestHope = IF delta < 0 THEN @ ELSE s.widthScore,
                                     !.scored = Append(@, [j |-> j, lineNumber |-> lineNumber,
                                                           delta |-> delta])]
                    score == jScore + s.widthScore + s.additionalPenalty
                    a3 == IF better(score, a2.best)
                          THEN [a2 EXCEPT !.best = score, !.bestPrev = j]
                          ELSE a2
                IN  InnerLoop(k, j + 1, a3)

\* one iteration of the outer loop of computeBreaks, for candidate o.i; the
\* trace records, for each iteration, active at its start and what it scored
scoreCandidate(ctx, lineWidth, strategy, justified, o) ==
    LET i == o.i
        lineNumberLast == At(o.breaksData, o.active).lineNumber
        width == getAt(lineWidth, lineNumberLast)
        k == [candidates |-> ctx.candidates, breaksData |-> o.breaksData,
              lineWidth |-> lineWidth, strategy |-> strategy, justified |-> justified,
              spaceWidth |-> ctx.spaceWidth, i |-> i]
        a == InnerLoop(k, o.active,
                       [best |-> SCORE_INFTY, bestPrev |-> 0, active |-> o.active,
                        width |-> width,
                        leftEdge |-> At(ctx.candidates, i).postBreak - width,
                        bestHope |-> 0, lineNumberLast |-> lineNumberLast,
                        scored |-> <<>>])
    IN  [i |-> i + 1,
         active |-> a.active,
         strategy |-> strategy,
         trace |-> Append(o.trace, [i |-> i, active |-> o.active, scored |-> a.scored]),
         breaksData |-> Append(o.breaksData,
              [score |-> a.best + At(ctx.candidates, i).penalty + ctx.linePenalty,
               prev |-> a.bestPrev,
               lineNumber |-> At(o.breaksData, a.bestPrev).lineNumber + 1])]

\* computeBreaks before its loop
NewBreaksData(strategy) ==
    [i |-> 1, active |-> 0, strategy |-> strategy, trace |-> <<>>,
     breaksData |-> <<[score |-> 0, prev |-> 0, lineNumber |-> 0]>>]

RECURSIVE OuterLoop(_, _, _, _)
OuterLoop(ctx, lineWidth, justified, o) ==
    IF o.i >= Len(ctx.candidates) THEN o
    ELSE OuterLoop(ctx, lineWidth, justified,
                   scoreCandidate(ctx, lineWidth, o.strategy, justified, o))

\* the loop of computeBreaks, to its end
computeBreaks(ctx, lineWidth, strategy, justified) ==
    OuterLoop(ctx, lineWidth, justified, NewBreaksData(strategy))

NoBreaksData == [i |-> 0, active |-> 0, strategy |-> "", trace |-> <<>>, breaksData |-> <<>>]

EmptyResult == [breakPoints |-> <<>>, widths |-> <<>>, flags |-> <<>>]

RECURSIVE FinishLoop(_, _, _, _)
FinishLoop(breaksData, candidates, i, res) ==
    IF i <= 0 THEN res
    ELSE
        LET prevIndex == At(breaksData, i).prev
            cand == At(candidates, i)
            prev == At(candidates, prevIndex)
        IN  FinishLoop(breaksData, candidates, prevIndex,
                [breakPoints |-> Append(res.breakPoints, cand.offset),
                 widths |-> Append(res.widths, cand.postBreak - prev.preBreak),
                 flags |-> Append(res.flags, <<prev.hyphenType, cand.hyphenType>>)])

finishBreaksOptimal(breaksData, candidates) ==
    LET r == FinishLoop(breaksData, candidates, Len(candidates) - 1, EmptyResult)
    IN  [breakPoints |-> Reverse(r.breakPoints), widths |-> Reverse(r.widths),
         flags |-> Reverse(r.flags)]

----------------------------------------------------------------------------
(* The inputs the model draws from *)

CharWidths == {0, 1}

WidestChar == CHOOSE w \in CharWidths : \A v \in CharWidths : v <= w

\* <<code unit, advance>>: letters of every width, spaces and the TAB of width 1
Glyphs ==
    {<<CHAR_a, w>> : w \in CharWidths}
        \cup {<<c, 1>> : c \in {CHAR_SPACE, CHAR_NBSP, CHAR_EN_SPACE, CHAR_TAB}}

\* a line width no paragraph of the model reaches
WideLine == MaxLen * WidestChar + 1

LineWidths ==
    {[first |-> 1, rest |-> 1], [first |-> 2, rest |-> 2],
     [first |-> WideLine, rest |-> WideLine], [first |-> WideLine + 1, rest |-> WideLine]}

\* paint->size * paint->scaleX
PaintSizes == {8}

\* the advance a hyphen edit adds to a measured piece
HyphenExtras == {0, 1}

\* WordBreaker::breakBadness
BreakBadness == {0, 1}

Run(start, end, localeListId, canHyphenate) ==
    [start |-> start, end |-> end, localeListId |-> localeListId,
     canHyphenate |-> canHyphenate]

\* one run over the whole text
SingleRun(n) == {<<Run(0, n, 1, h)>> : h \in BOOLEAN}

\* the arguments of breakLineOptimal but the strategy, which only
\* computeBreaks reads and which is drawn when it is entered.  The frequency
\* is read only for runs that can hyphenate, so the others come with "None".
Inputs(n, runs, frequencies) ==
    {[text |-> [k \in 1..n |-> g[k][1]], widths |-> [k \in 1..n |-> g[k][2]],
      runs |-> r, lineWidth |-> lw, frequency |-> fr,
      justified |-> ju, paintSize |-> ps] :
        g \in [1..n -> Glyphs],
        r \in runs, lw \in LineWidths,
        fr \in frequencies, ju \in BOOLEAN, ps \in PaintSizes}

Relevant(in) ==
    (\A k \in 1..Len(in.runs) : ~in.runs[k].canHyphenate) => in.frequency = "None"

IdleTag == [op |-> "idle"]

InitWith(in) ==
    /\ input = in
    /\ pc = "populate"
    /\ proc = NewCharProcessor
    /\ loop = [i |-> 0, run |-> 1, hyphenPenalty |-> 0]
    /\ context = NewOptimizeContext
    /\ opt = NoBreaksData
    /\ result = EmptyResult
    /\ tag = IdleTag

\* one run, or two that meet at any offset, the second of the same or of
\* another locale list; none asks for hyphenation
RunLayouts(n) ==
    {<<Run(0, n, 1, FALSE)>>} \cup
    {<<Run(0, k, 1, FALSE), Run(k, n, l, FALSE)>> : k \in 1..(n - 1), l \in {1, 2}}

\* paragraphs of several runs, without hyphenation
InitRuns ==
    \E n \in 0..MaxLen : \E in \in Inputs(n, RunLayouts(n), {"None"}) : InitWith(in)

Init ==
    \E n \in 0..MaxLen : \E in \in Inputs(n, SingleRun(n), HyphenationFrequency) :
        Relevant(in) /\ InitWith(in)

----------------------------------------------------------------------------
(* breakLineOptimal, step by step *)

\* a character of a word, which the hyphenator may separate from its
\* neighbour
isLetter(c) == ~isLineEndSpace(c) /\ ~isWordSpace(c) /\ c # CHAR_TAB

\* what hyphenate() and Run::measureHyphenPiece can answer for the word in
\* ctx: hyphenation points between two letters only, at most
\* MaxHyphensPerWord of them, each piece measured as its characters plus what
\* the hyphen edit adds
HyphenAnswers(text, widths, ctx) ==
    LET offs == ctx.start .. (ctx.end - 1)
        none == [type |-> DONT_BREAK, first |-> 0, second |-> 0]
        at(i) == {none} \cup
                 (IF i = ctx.start \/ ~isLetter(At(text, i - 1)) \/ ~isLetter(At(text, i))
                  THEN {}
                  ELSE {[type |-> BREAK_AND_INSERT_HYPHEN,
                         first |-> SumRange(widths, ctx.start, i) + e1,
                         second |-> SumRange(widths, i, ctx.end) + e2] :
                            e1 \in HyphenExtras, e2 \in HyphenExtras})
    IN  {h \in [offs -> UNION {at(i) : i \in offs}] :
            /\ \A i \in offs : h[i] \in at(i)
            /\ Cardinality({i \in offs : h[i].type # DONT_BREAK}) <= MaxHyphensPerWord}

NoHyphenAnswer == {<<>>}

\* the end of one pass of the loop over the characters
Advance(p, candidates, linePenalty, hyphenPenalty) ==
    LET i == loop.i
        run == input.runs[loop.run]
        last == i + 1 = Len(input.text)
    IN  /\ proc' = p
        /\ loop' = [i |-> i + 1,
                    run |-> IF i + 1 = run.end THEN loop.run + 1 ELSE loop.run,
                    hyphenPenalty |-> hyphenPenalty]
        /\ context' = [candidates |-> candidates, linePenalty |-> linePenalty,
                       spaceWidth |-> IF last THEN p.spaceWidth ELSE context.spaceWidth]
        /\ pc' = IF last THEN "compute" ELSE "populate"
        /\ UNCHANGED <<input, opt, result, tag>>

\* breakLineOptimal on an empty text
EmptyText ==
    /\ pc = "populate"
    /\ Len(input.text) = 0
    /\ result' = EmptyResult
    /\ pc' = "done"
    /\ UNCHANGED <<input, proc, loop, context, opt, tag>>

\* populateCandidates: one pass of its loop over the characters, with the
\* entry into the run when the character is the run's first
FeedChar ==
    /\ pc = "populate"
    /\ loop.i < Len(input.text)
    /\ LET i == loop.i
           n == Len(input.text)
           run == input.runs[loop.run]
           atRunStart == i = run.start
           penalties == computePenalties(input.paintSize, input.lineWidth,
                                         input.frequency, input.justified)
           hyphenPenalty == IF atRunStart
                            THEN (IF run.canHyphenate THEN penalties[1] ELSE 0)
                            ELSE loop.hyphenPenalty
           linePenalty == IF atRunStart /\ run.canHyphenate
                          THEN Max(penalties[2], context.linePenalty)
                          ELSE context.linePenalty
           relocate == atRunStart /\ proc.localeListId # run.localeListId
       IN  \E following \in (IF relocate THEN run.start .. n ELSE {0}) :
           LET p0 == IF atRunStart THEN updateLocaleIfNecessary(proc, run, following)
                     ELSE proc
           IN  IF ~feedCharAccepts(At(input.text, i))
               THEN /\ pc' = "aborted"
                    /\ UNCHANGED <<input, proc, loop, context, opt, result, tag>>
               ELSE
               \E next \in (IF i = p0.nextWordBreak THEN (i + 1) .. n ELSE {0}) :
               LET p == feedChar(p0, i, At(input.text, i), At(input.widths, i), next)
                   nextCharOffset == i + 1
                   ctx == contextRange(p)
                   hyphenate == run.canHyphenate /\ input.frequency # "None"
                   asked == hyphenate /\ RangeContains(run, ctx)
                   mayBreak == wordBreakAllowed(nextCharOffset, run, input.widths)
               IN  IF nextCharOffset # p.nextWordBreak
                   THEN Advance(p, context.candidates, linePenalty, hyphenPenalty)
                   ELSE
                   \E hyph \in (IF asked THEN HyphenAnswers(input.text, input.widths, ctx)
                                ELSE NoHyphenAnswer),
                      badness \in (IF mayBreak /\ hyphenPenalty > 0 THEN BreakBadness
                                   ELSE {0}) :
                   LET hyphenedBreaks ==
                           IF hyphenate
                           THEN populateHyphenationPoints(run, ctx, ctx, hyph)
                           ELSE <<>>
                       desperateBreaks ==
                           IF widthFromLastWordBreak(p) > getMin(input.lineWidth)
                           THEN populateDesperatePoints(input.widths, ctx)
                           ELSE <<>>
                       merged == appendWithMerging(hyphenedBreaks, desperateBreaks, p,
                                                   hyphenPenalty, context.candidates)
                       candidates ==
                           IF mayBreak
                           THEN pushWordBreak(merged, nextCharOffset, p.sumOfCharWidths,
                                              p.effectiveWidth, hyphenPenalty * badness,
                                              p.rawSpaceCount, p.effectiveSpaceCount)
                           ELSE merged
                   IN  Advance(p, candidates, linePenalty, hyphenPenalty)

\* computeBreaks as breakLineOptimal calls it: the loop, finishBreaksOptimal
\* and the return
ComputeBreaks ==
    /\ pc = "compute"
    /\ \E strategy \in BreakStrategy :
        LET o == computeBreaks(context, input.lineWidth, strategy, input.justified)
        IN  /\ opt' = o
            /\ result' = finishBreaksOptimal(o.breaksData, context.candidates)
    /\ pc' = "done"
    /\ UNCHANGED <<input, proc, loop, context, tag>>

Next == EmptyText \/ FeedChar \/ ComputeBreaks

Spec == Init /\ [][Next]_vars

SpecRuns == InitRuns /\ [][Next]_vars

----------------------------------------------------------------------------
(* computeBreaks on any list of candidates *)

\* candidates after the sentinel
MaxCands == 3

\* the largest postBreak
MaxPos == 4

\* how far preBreak lies from postBreak: below it at a hyphenation whose
\* pieces overlap, above it after line-end spaces
PrePostGap == 1

\* hyphenPenalty times a breakBadness, where it is not 0
SomePenalty == 4

\* what pushWordBreak, pushHyphenation and pushDesperate give a candidate
CandidateKinds ==
    {[hyphenType |-> DONT_BREAK, penalty |-> 0],
     [hyphenType |-> DONT_BREAK, penalty |-> SomePenalty],
     [hyphenType |-> BREAK_AND_INSERT_HYPHEN, penalty |-> SomePenalty],
     [hyphenType |-> BREAK_AND_DONT_INSERT_HYPHEN, penalty |-> SCORE_DESPERATE]}

NonDecreasing(s) == \A k \in 1..(Len(s) - 1) : s[k] <= s[k + 1]

\* the lists of K candidates after the sentinel: preBreak and postBreak never
\* decrease, a word break has its preBreak at or after its postBreak, a
\* hyphenation at or before it, a desperate break at it, and the last
\* candidate is the word break at the end of the text
CandidateLists(K) ==
    LET built == {<<At(NewOptimizeContext.candidates, 0)>> \o
                  [k \in 1..K |-> Candidate(k, post[k] + gap[k], post[k], kind[k].penalty,
                                            0, 0, kind[k].hyphenType)] :
                        post \in {q \in [1..K -> 0..MaxPos] : NonDecreasing(q)},
                        gap \in [1..K -> (-PrePostGap)..PrePostGap],
                        kind \in [1..K -> CandidateKinds]}
    IN  {c \in built :
            /\ NonDecreasing([k \in 1..Len(c) |-> c[k].preBreak])
            /\ \A k \in 2..Len(c) :
                  /\ c[k].hyphenType = DONT_BREAK => c[k].preBreak >= c[k].postBreak
                  /\ c[k].hyphenType = BREAK_AND_INSERT_HYPHEN => c[k].preBreak <= c[k].postBreak
                  /\ c[k].hyphenType = BREAK_AND_DONT_INSERT_HYPHEN
                        => c[k].preBreak = c[k].postBreak
            /\ Last(c).hyphenType = DONT_BREAK}

\* paragraphs of one line width, not justified
OptLineWidths == {[first |-> 1, rest |-> 1], [first |-> 2, rest |-> 2]}

OptLinePenalties == {0, 2}

InitOpt ==
    \E K \in 1..MaxCands : \E c \in CandidateLists(K) :
    \E lw \in OptLineWidths : \E lp \in OptLinePenalties :
        /\ input = [text |-> <<>>, widths |-> <<>>, runs |-> <<>>, lineWidth |-> lw,
                    frequency |-> "None", justified |-> FALSE, paintSize |-> 0]
        /\ pc = "compute"
        /\ proc = NewCharProcessor
        /\ loop = [i |-> 0, run |-> 1, hyphenPenalty |-> 0]
        /\ context = [candidates |-> c, linePenalty |-> lp, spaceWidth |-> 0]
        /\ opt = NoBreaksData
        /\ result = EmptyResult
        /\ tag = IdleTag

SpecOpt == InitOpt /\ [][ComputeBreaks]_vars

----------------------------------------------------------------------------
(* computeBreaks on a paragraph whose last line can start at a hyphenation or
   at a word break *)

\* the hyphenation penalties of these paragraphs
LastLinePenalties == {1, SomePenalty}

\* the sentinel, a hyphenation and a word break of penalty 0 in either order,
\* and the word break at the end of the text
LastLineLists ==
    {c \in {<<At(NewOptimizeContext.candidates, 0)>> \o
            [k \in 1..3 |-> Candidate(k, post[k] + gap[k], post[k],
                                      IF k = h THEN p ELSE 0, 0, 0,
                                      IF k = h THEN BREAK_AND_INSERT_HYPHEN ELSE DONT_BREAK)] :
                post \in {q \in [1..3 -> 0..MaxPos] : NonDecreasing(q)},
                gap \in [1..3 -> (-PrePostGap)..PrePostGap],
                h \in {1, 2}, p \in LastLinePenalties} :
        /\ NonDecreasing([k \in 1..Len(c) |-> c[k].preBreak])
        /\ \A k \in 2..Len(c) :
              /\ c[k].hyphenType = DONT_BREAK => c[k].preBreak >= c[k].postBreak
              /\ c[k].hyphenType = BREAK_AND_INSERT_HYPHEN => c[k].preBreak <= c[k].postBreak}

\* one line width, wide enough for a slack whose square exceeds 5 penalties
LastLineWidths == {[first |-> 2, rest |-> 2], [first |-> 3, rest |-> 3]}

InitLast ==
    \E c \in LastLineLists : \E lw \in LastLineWidths : \E lp \in OptLinePenalties :
        /\ input = [text |-> <<>>, widths |-> <<>>, runs |-> <<>>, lineWidth |-> lw,
                    frequency |-> "None", justified |-> FALSE, paintSize |-> 0]
        /\ pc = "compute"
        /\ proc = NewCharProcessor
        /\ loop = [i |-> 0, run |-> 1, hyphenPenalty |-> 0]
        /\ context = [candidates |-> c, linePenalty |-> lp, spaceWidth |-> 0]
        /\ opt = NoBreaksData
        /\ result = EmptyResult
        /\ tag = IdleTag

SpecLast == InitLast /\ [][ComputeBreaks]_vars

----------------------------------------------------------------------------
(* computeBreaks with a first line of another width than the rest *)

VarLineWidths == {[first |-> 1, rest |-> 2], [first |-> 2, rest |-> 1]}

InitVar ==
    \E K \in 1..MaxCands : \E c \in CandidateLists(K) :
    \E lw \in VarLineWidths : \E lp \in OptLinePenalties :
        /\ input = [text |-> <<>>, widths |-> <<>>, runs |-> <<>>, lineWidth |-> lw,
                    frequency |-> "None", justified |-> FALSE, paintSize |-> 0]
        /\ pc = "compute"
        /\ proc = NewCharProcessor
        /\ loop = [i |-> 0, run |-> 1, hyphenPenalty |-> 0]
        /\ context = [candidates |-> c, linePenalty |-> lp, spaceWidth |-> 0]
        /\ opt = NoBreaksData
        /\ result = EmptyResult
        /\ tag = IdleTag

SpecVar == InitVar /\ [][ComputeBreaks]_vars

----------------------------------------------------------------------------
(* FontLanguage.cpp: characters and integers *)

\* the printable characters from ' ' (32) to '~' (126), one string each, the
\* quote, the backslash and the backtick by their names
Ascii ==
    <<
      " ", "!", "<quote>", "#", "$", "%", "&", "'", "(", ")", "*", "+", ",", "-", ".", "/",
      "0", "1", "2", "3", "4", "5", "6", "7", "8", "9", ":", ";", "<", "=", ">", "?",
      "@", "A", "B", "C", "D", "E", "F", "G", "H", "I", "J", "K", "L", "M", "N", "O",
      "P", "Q", "R", "S", "T", "U", "V", "W", "X", "Y", "Z", "[", "<backslash>", "]", "^", "_",
      "<backtick>", "a", "b", "c", "d", "e", "f", "g", "h", "i", "j", "k", "l", "m", "n", "o",
      "p", "q", "r", "s", "t", "u", "v", "w", "x", "y", "z", "{", "|", "}", "~"
    >>

\* the codes of the characters
Codes == [c \in {Ascii[k] : k \in 1..Len(Ascii)} |-> CHOOSE n \in 32..126 : Ascii[n - 31] = c]

\* the code of a character
Ord(c) == Codes[c]

\* the character of a code; the codes past '~' that unpacking can reach have
\* a name of their own
Chr(n) ==
    IF n \in 32..126 THEN Ascii[n - 31]
    ELSE IF n = 127 THEN "<DEL>" ELSE "<128>"

RECURSIVE Pow2(_)
Pow2(n) == IF n = 0 THEN 1 ELSE 2 * Pow2(n - 1)

\* x << n and x >> n on unsigned values
Shl(x, n) == x * Pow2(n)

Shr(x, n) == x \div Pow2(n)

RECURSIVE BitAnd(_, _)
BitAnd(x, y) ==
    IF x = 0 \/ y = 0 THEN 0
    ELSE 2 * BitAnd(x \div 2, y \div 2) + (IF x % 2 = 1 /\ y % 2 = 1 THEN 1 ELSE 0)

RECURSIVE BitOr(_, _)
BitOr(x, y) ==
    IF x = 0 THEN y
    ELSE IF y = 0 THEN x
    ELSE 2 * BitOr(x \div 2, y \div 2) + (IF x % 2 = 1 \/ y % 2 = 1 THEN 1 ELSE 0)

\* the cast (uint16_t)
U16(x) == x % 65536

\* the cast (uint8_t)
U8(x) == x % 256

FIVE_BITS == 31

\* StringPiece::substr(from, length), from counted from 0
Substr(s, from, length) == SubSeq(s, from + 1, from + length)

----------------------------------------------------------------------------
(* FontLanguage.cpp: packing *)

\* the mark of a two-letter code left out
packLanguageOrRegionUnmarked(in, twoLetterBase, threeLetterBase) ==
    IF Len(in) = 2
    THEN U16(BitOr(Shl(U16(Ord(At(in, 0)) - twoLetterBase), 5),
                   U16(Ord(At(in, 1)) - twoLetterBase)))
    ELSE U16(BitOr(BitOr(Shl(U16(Ord(At(in, 0)) - threeLetterBase), 10),
                         Shl(U16(Ord(At(in, 1)) - threeLetterBase), 5)),
                   U16(Ord(At(in, 2)) - threeLetterBase)))

packLanguageOrRegion(in, twoLetterBase, threeLetterBase) ==
    IF Len(in) = 2
    THEN U16(BitOr(BitOr(31744,
                         Shl(U16(Ord(At(in, 0)) - twoLetterBase), 5)),
                   U16(Ord(At(in, 1)) - twoLetterBase)))
    ELSE U16(BitOr(BitOr(Shl(U16(Ord(At(in, 0)) - threeLetterBase), 10),
                         Shl(U16(Ord(At(in, 1)) - threeLetterBase), 5)),
                   U16(Ord(At(in, 2)) - threeLetterBase)))

\* the characters written to out, which are as many as the code returns
unpackLanguageOrRegion(in, twoLetterBase, threeLetterBase) ==
    LET first == U8(BitAnd(Shr(in, 10), FIVE_BITS))
        second == U8(BitAnd(Shr(in, 5), FIVE_BITS))
        third == U8(BitAnd(in, FIVE_BITS))
    IN  IF first = 31
        THEN <<Chr(second + twoLetterBase), Chr(third + twoLetterBase)>>
        ELSE <<Chr(first + threeLetterBase), Chr(second + threeLetterBase),
               Chr(third + threeLetterBase)>>

packLanguage(in) == packLanguageOrRegion(in, Ord("a"), Ord("a"))

unpackLanguage(in) == unpackLanguageOrRegion(in, Ord("a"), Ord("a"))

\* packScript(c1, c2, c3, c4), on the letters that isValidScriptCode lets in
packScript(c1, c2, c3, c4) ==
    BitOr(BitOr(BitOr(Shl(Ord(c1) - Ord("A"), 15), Shl(Ord(c2) - Ord("a"), 10)),
                Shl(Ord(c3) - Ord("a"), 5)),
          Ord(c4) - Ord("a"))

\* the four characters of unpackScript's value, from its highest byte down
unpackScript(packedScript) ==
    LET first == Shr(packedScript, 15) + Ord("A")
        second == BitAnd(Shr(packedScript, 10), FIVE_BITS) + Ord("a")
        third == BitAnd(Shr(packedScript, 5), FIVE_BITS) + Ord("a")
        fourth == BitAnd(packedScript, FIVE_BITS) + Ord("a")
    IN  <<Chr(first), Chr(second), Chr(third), Chr(fourth)>>

packRegion(in) == packLanguageOrRegion(in, Ord("A"), Ord("0"))

unpackRegion(in) == unpackLanguageOrRegion(in, Ord("A"), Ord("0"))

isLowercase(c) == Ord("a") <= Ord(c) /\ Ord(c) <= Ord("z")

isUppercase(c) == Ord("A") <= Ord(c) /\ Ord(c) <= Ord("Z")

isDigit(c) == Ord("0") <= Ord(c) /\ Ord(c) <= Ord("9")

\* the test of the first character left out
isValidLanguageCodeFromSecond(buffer) ==
    IF Len(buffer) # 2 /\ Len(buffer) # 3 THEN FALSE
    ELSE IF ~isLowercase(At(buffer, 1)) THEN FALSE
    ELSE IF Len(buffer) = 3 /\ ~isLowercase(At(buffer, 2)) THEN FALSE
    ELSE TRUE

isValidLanguageCode(buffer) ==
    IF Len(buffer) # 2 /\ Len(buffer) # 3 THEN FALSE
    ELSE IF ~isLowercase(At(buffer, 0)) THEN FALSE
    ELSE IF ~isLowercase(At(buffer, 1)) THEN FALSE
    ELSE IF Len(buffer) = 3 /\ ~isLowercase(At(buffer, 2)) THEN FALSE
    ELSE TRUE

isValidScriptCode(buffer) ==
    Len(buffer) = 4 /\ isUppercase(At(buffer, 0)) /\ isLowercase(At(buffer, 1))
        /\ isLowercase(At(buffer, 2)) /\ isLowercase(At(buffer, 3))

\* only the length tested
isValidRegionCodeByLength(buffer) == Len(buffer) = 2 \/ Len(buffer) = 3

isValidRegionCode(buffer) ==
    \/ (Len(buffer) = 2 /\ isUppercase(At(buffer, 0)) /\ isUppercase(At(buffer, 1)))
    \/ (Len(buffer) = 3 /\ isDigit(At(buffer, 0)) /\ isDigit(At(buffer, 1))
            /\ isDigit(At(buffer, 2)))

----------------------------------------------------------------------------
(* FontLanguage.cpp: the tag *)

\* the values of the fields that are absent; no packed code equals them
NO_LANGUAGE == 32767

NO_SCRIPT == 1048575

NO_REGION == 32767

\* FontLanguage(): every field absent
DefaultFontLanguage ==
    [mScript |-> NO_SCRIPT, mLanguage |-> NO_LANGUAGE, mRegion |-> NO_REGION,
     mVariant |-> "NO_VARIANT", mSubScriptBits |-> {}, mEmojiStyle |-> "EMSTYLE_EMPTY"]

RECURSIVE SplitFrom(_, _, _, _)
SplitFrom(string, delimiter, k, token) ==
    IF k > Len(string) THEN <<token>>
    ELSE IF string[k] = delimiter
         THEN <<token>> \o SplitFrom(string, delimiter, k + 1, <<>>)
         ELSE SplitFrom(string, delimiter, k + 1, Append(token, string[k]))

\* the pieces that SplitIterator(string, delimiter) returns from next(), in
\* order; an empty string has none
Split(string, delimiter) ==
    IF string = <<>> THEN <<>> ELSE SplitFrom(string, delimiter, 1, <<>>)

\* SplitIterator::hasNext after the first taken pieces
hasNext(pieces, taken) == taken < Len(pieces)

\* the piece that the call of SplitIterator::next after the first taken ones
\* returns, empty when there is none
nextPiece(pieces, taken) == IF hasNext(pieces, taken) THEN pieces[taken + 1] ELSE <<>>

\* std::search: where needle first occurs in buf, counted from 0, or the
\* length of buf
search(buf, needle) ==
    LET at == {k \in 0..(Len(buf) - Len(needle)) : Substr(buf, k, Len(needle)) = needle}
    IN  IF at = {} THEN Len(buf) ELSE CHOOSE k \in at : \A q \in at : k <= q

\* isEmojiSubtag on the rest of the buffer from pos; no buffer of the model
\* holds the character NUL
isEmojiSubtag(buf, subtag) ==
    IF Len(buf) < Len(subtag) THEN FALSE
    ELSE IF Substr(buf, 0, Len(subtag)) # subtag THEN FALSE
    ELSE \/ Len(buf) = Len(subtag)
         \/ At(buf, Len(subtag)) = "-"
         \/ At(buf, Len(subtag)) = "_"

kMinSubtagLength == 10

resolveEmojiStyle(buf) ==
    LET kPrefix == <<"-", "u", "-", "e", "m", "-">>
        pos == search(buf, kPrefix)
        rest == Substr(buf, pos + Len(kPrefix), Len(buf) - (pos + Len(kPrefix)))
    IN  IF Len(buf) >= kMinSubtagLength /\ pos # Len(buf)
        THEN IF isEmojiSubtag(rest, <<"e", "m", "o", "j", "i">>) THEN "EMSTYLE_EMOJI"
             ELSE IF isEmojiSubtag(rest, <<"t", "e", "x", "t">>) THEN "EMSTYLE_TEXT"
             ELSE IF isEmojiSubtag(rest, <<"d", "e", "f", "a", "u", "l", "t">>)
             THEN "EMSTYLE_DEFAULT"
             ELSE "EMSTYLE_EMPTY"
        ELSE "EMSTYLE_EMPTY"

scriptToEmojiStyle(script) ==
    IF script = packScript("Z", "s", "y", "e") THEN "EMSTYLE_EMOJI"
    ELSE IF script = packScript("Z", "s", "y", "m") THEN "EMSTYLE_TEXT"
    ELSE "EMSTYLE_EMPTY"

\* the flags as a set of their names
scriptToSubScriptBits(script) ==
    IF script = packScript("B", "o", "p", "o") THEN {"kBopomofoFlag"}
    ELSE IF script = packScript("H", "a", "n", "g") THEN {"kHangulFlag"}
    ELSE IF script = packScript("H", "a", "n", "b") THEN {"kHanFlag", "kBopomofoFlag"}
    ELSE IF script = packScript("H", "a", "n", "i") THEN {"kHanFlag"}
    ELSE IF script = packScript("H", "a", "n", "s")
    THEN {"kHanFlag", "kSimplifiedChineseFlag"}
    ELSE IF script = packScript("H", "a", "n", "t")
    THEN {"kHanFlag", "kTraditionalChineseFlag"}
    ELSE IF script = packScript("H", "i", "r", "a") THEN {"kHiraganaFlag"}
    ELSE IF script = packScript("H", "r", "k", "t") THEN {"kKatakanaFlag", "kHiraganaFlag"}
    ELSE IF script = packScript("J", "p", "a", "n")
    THEN {"kHanFlag", "kKatakanaFlag", "kHiraganaFlag"}
    ELSE IF script = packScript("K", "a", "n", "a") THEN {"kKatakanaFlag"}
    ELSE IF script = packScript("K", "o", "r", "e") THEN {"kHanFlag", "kHangulFlag"}
    ELSE {}

\* the label finalize of the constructor
finalize(l) ==
    IF l.mEmojiStyle = "EMSTYLE_EMPTY"
    THEN [l EXCEPT !.mEmojiStyle = scriptToEmojiStyle(l.mScript)]
    ELSE l

\* the constructor from "if (language == "de")" on; token is the piece in
\* hand, taken counts the pieces taken from the iterator
parseVariant(str, pieces, language, token, taken, l) ==
    LET v == IF language = <<"d", "e">>
             THEN IF token = <<"1", "9", "0", "1">> THEN "GERMAN_1901_ORTHOGRAPHY"
                  ELSE IF token = <<"1", "9", "9", "6">> THEN "GERMAN_1996_ORTHOGRAPHY"
                  ELSE l.mVariant
             ELSE l.mVariant
        l1 == [l EXCEPT !.mVariant = v]
    IN  IF language = <<"d", "e">> /\ v # "NO_VARIANT" /\ ~hasNext(pieces, taken)
        THEN finalize(l1)
        ELSE finalize([l1 EXCEPT !.mEmojiStyle = resolveEmojiStyle(str)])

\* the constructor from "if (isValidRegionCode(token))" on
parseRegion(str, pieces, language, token, taken, l) ==
    IF isValidRegionCode(token)
    THEN LET l1 == [l EXCEPT !.mRegion = packRegion(token)]
         IN  IF ~hasNext(pieces, taken) THEN finalize(l1)
             ELSE parseVariant(str, pieces, language, nextPiece(pieces, taken),
                               taken + 1, l1)
    ELSE parseVariant(str, pieces, language, token, taken, l)

\* the constructor from "if (isValidScriptCode(token))" on
parseScript(str, pieces, language, token, taken, l) ==
    IF isValidScriptCode(token)
    THEN LET script == packScript(At(token, 0), At(token, 1), At(token, 2), At(token, 3))
             l1 == [l EXCEPT !.mScript = script,
                             !.mSubScriptBits = scriptToSubScriptBits(script)]
         IN  IF ~hasNext(pieces, taken) THEN finalize(l1)
             ELSE parseRegion(str, pieces, language, nextPiece(pieces, taken),
                              taken + 1, l1)
    ELSE parseRegion(str, pieces, language, token, taken, l)

\* FontLanguage::FontLanguage(const StringPiece& input), input as str
FontLanguageOf(str) ==
    LET pieces == Split(str, "-")
        language == nextPiece(pieces, 0)
    IN  IF ~isValidLanguageCode(language) THEN DefaultFontLanguage
        ELSE LET l == [DefaultFontLanguage EXCEPT !.mLanguage = packLanguage(language)]
             IN  IF ~hasNext(pieces, 1) THEN l
                 ELSE parseScript(str, pieces, language, nextPiece(pieces, 1), 2, l)

\* FontLanguage::getString
getString(l) ==
    LET language == IF l.mLanguage = NO_LANGUAGE THEN <<"u", "n", "d">>
                    ELSE unpackLanguage(l.mLanguage)
        script == IF l.mScript # NO_SCRIPT THEN <<"-">> \o unpackScript(l.mScript)
                  ELSE <<>>
        region == IF l.mRegion # NO_REGION THEN <<"-">> \o unpackRegion(l.mRegion)
                  ELSE <<>>
        variant == IF l.mVariant = "GERMAN_1901_ORTHOGRAPHY"
                   THEN <<"-", "1", "9", "0", "1">>
                   ELSE IF l.mVariant = "GERMAN_1996_ORTHOGRAPHY"
                   THEN <<"-", "1", "9", "9", "6">>
                   ELSE <<>>
    IN  language \o script \o region \o variant

----------------------------------------------------------------------------
(* FontLanguage.cpp: parsing a tag and printing it *)

\* subtags after the first piece of an input
MaxSubtags == 3

\* letters of the language codes: the first, the last and one between
LanguageLetters == {"a", "e", "z"}

LanguageCodes ==
    {<<"d", "e">>} \cup
    {<<a, b>> : a \in LanguageLetters, b \in LanguageLetters} \cup
    {<<a, b, c>> : a \in LanguageLetters, b \in LanguageLetters, c \in LanguageLetters}

\* first pieces that are no language code: none, an upper-case letter, too
\* short, too long, a digit
NoLanguageCodes ==
    {<<>>, <<"E", "n">>, <<"e">>, <<"e", "n", "g", "l">>, <<"e", "1">>}

ScriptCodes == {<<"L", "a", "t", "n">>, <<"Z", "s", "y", "e">>}

RegionCodes == {<<"U", "S">>, <<"4", "1", "9">>}

VariantCodes == {<<"1", "9", "0", "1">>, <<"1", "9", "9", "6">>}

\* a subtag that is no script, region or variant
UnknownCodes == {<<"x", "1">>}

\* the emoji extension, three pieces
EmojiExtensions ==
    {<<"u", "-", "e", "m", "-", "e", "m", "o", "j", "i">>,
     <<"u", "-", "e", "m", "-", "t", "e", "x", "t">>}

Subtags == ScriptCodes \cup RegionCodes \cup VariantCodes \cup UnknownCodes
               \cup EmojiExtensions

RECURSIVE JoinFrom(_, _, _)
JoinFrom(pieces, k, delimiter) ==
    IF k > Len(pieces) THEN <<>>
    ELSE <<delimiter>> \o pieces[k] \o JoinFrom(pieces, k + 1, delimiter)

\* the pieces with the delimiter between them
Join(pieces, delimiter) ==
    IF pieces = <<>> THEN <<>> ELSE pieces[1] \o JoinFrom(pieces, 2, delimiter)

\* the inputs: a first piece and up to MaxSubtags subtags, joined by '-'
InitLocale ==
    \E n \in 0..MaxSubtags : \E first \in LanguageCodes \cup NoLanguageCodes :
    \E rest \in [1..n -> Subtags] :
        /\ input = Join(<<first>> \o rest, "-")
        /\ pc = "tag"
        /\ proc = NewCharProcessor
        /\ loop = [i |-> 0, run |-> 1, hyphenPenalty |-> 0]
        /\ context = NewOptimizeContext
        /\ opt = NoBreaksData
        /\ result = EmptyResult
        /\ tag = IdleTag

\* the construction of a FontLanguage from the input
Construct ==
    /\ pc = "tag"
    /\ tag' = [op |-> "FontLanguage", locale |-> FontLanguageOf(input)]
    /\ pc' = "parsed"
    /\ UNCHANGED <<input, proc, loop, context, opt, result>>

\* the call of getString on it
GetString ==
    /\ pc = "parsed"
    /\ tag' = [op |-> "getString", locale |-> tag.locale, string |-> getString(tag.locale)]
    /\ pc' = "printed"
    /\ UNCHANGED <<input, proc, loop, context, opt, result>>

NextLocale == Construct \/ GetString

SpecLocale == InitLocale /\ [][NextLocale]_vars

----------------------------------------------------------------------------
(* FontLanguage.cpp: the score of a tag against a list of supported tags *)

isEqualScript(l, other) == other.mScript = l.mScript

\* the provided bits compared with the requested ones, not masked by them
supportsScriptExact(providedBits, requestedBits) ==
    requestedBits # {} /\ providedBits = requestedBits

supportsScript(providedBits, requestedBits) ==
    requestedBits # {} /\ (providedBits \cap requestedBits) = requestedBits

\* FontLanguages() of an empty vector: the members as the class declares them
EmptyFontLanguages ==
    [mLanguages |-> <<>>, mUnionOfSubScriptBits |-> {}, mIsAllTheSameLanguage |-> FALSE]

RECURSIVE FontLanguagesLoop(_, _, _)
\* the loop of the constructor over mLanguages[1..]
FontLanguagesLoop(languages, i, f) ==
    IF i >= Len(languages) THEN f
    ELSE FontLanguagesLoop(languages, i + 1,
             [f EXCEPT !.mUnionOfSubScriptBits = @ \cup At(languages, i).mSubScriptBits,
                       !.mIsAllTheSameLanguage =
                           IF @ /\ At(languages, 0).mLanguage # At(languages, i).mLanguage
                           THEN FALSE ELSE @])

\* FontLanguages::FontLanguages(std::vector<FontLanguage>&&)
FontLanguages(languages) ==
    IF languages = <<>> THEN EmptyFontLanguages
    ELSE FontLanguagesLoop(languages, 1,
             [mLanguages |-> languages,
              mUnionOfSubScriptBits |-> At(languages, 0).mSubScriptBits,
              mIsAllTheSameLanguage |-> TRUE])

RECURSIVE ScoreLoop(_, _, _, _)
\* the loop of calcScoreFor; m holds its three flags and returned, the value
\* of a return from inside the loop (-1 for none)
ScoreLoop(l, supported, i, m) ==
    IF i >= Len(supported.mLanguages) THEN m
    ELSE
        LET si == At(supported.mLanguages, i)
            emoji == l.mEmojiStyle # "EMSTYLE_EMPTY" /\ l.mEmojiStyle = si.mEmojiStyle
            script == isEqualScript(l, si) \/ supportsScript(si.mSubScriptBits, l.mSubScriptBits)
        IN  IF emoji /\ l.mLanguage = si.mLanguage
            THEN [m EXCEPT !.subtagMatch = TRUE, !.returned = 4]
            ELSE ScoreLoop(l, supported, i + 1,
                     [m EXCEPT !.subtagMatch = @ \/ emoji,
                               !.scriptMatch = @ \/ script,
                               !.languageScriptMatch =
                                   @ \/ (script /\ l.mLanguage = si.mLanguage)])

\* FontLanguage::calcScoreFor
calcScoreFor(l, supported) ==
    LET m == ScoreLoop(l, supported, 0,
                       [languageScriptMatch |-> FALSE, subtagMatch |-> FALSE,
                        scriptMatch |-> FALSE, returned |-> -1])
        union == supportsScript(supported.mUnionOfSubScriptBits, l.mSubScriptBits)
    IN  IF m.returned # -1 THEN m.returned
        ELSE IF union /\ l.mLanguage = At(supported.mLanguages, 0).mLanguage
                      /\ supported.mIsAllTheSameLanguage
        THEN 3
        ELSE IF m.languageScriptMatch THEN 3
        ELSE IF m.subtagMatch THEN 2
        ELSE IF m.scriptMatch \/ union THEN 1
        ELSE 0

\* tags of a supported list
MaxSupported == 2

\* the tags scored: Korean and English, with scripts whose bits cover each
\* other (Kore = Han + Hangul) or do not (Kana), the emoji script, the emoji
\* extension, and no script
ScoreTags ==
    {<<"k", "o", "-", "K", "o", "r", "e">>, <<"k", "o", "-", "H", "a", "n", "i">>,
     <<"k", "o", "-", "H", "a", "n", "g">>, <<"e", "n", "-", "K", "o", "r", "e">>,
     <<"e", "n", "-", "Z", "s", "y", "e">>, <<"k", "o", "-", "Z", "s", "y", "e">>,
     <<"e", "n">>, <<"k", "o", "-", "K", "a", "n", "a">>,
     <<"k", "o", "-", "K", "o", "r", "e", "-", "u", "-", "e", "m", "-", "e", "m", "o", "j", "i">>}

\* a requested tag, a supported list and a tag to append to it
InitScore ==
    \E n \in 1..MaxSupported : \E t \in ScoreTags, s \in ScoreTags :
    \E L \in [1..n -> ScoreTags] :
        /\ input = [requested |-> t, supported |-> L, added |-> s]
        /\ pc = "lists"
        /\ proc = NewCharProcessor
        /\ loop = [i |-> 0, run |-> 1, hyphenPenalty |-> 0]
        /\ context = NewOptimizeContext
        /\ opt = NoBreaksData
        /\ result = EmptyResult
        /\ tag = IdleTag

\* the tags parsed and the two lists built: the supported one, and it with
\* the added tag at its end
BuildLists ==
    /\ pc = "lists"
    /\ LET parsed == [k \in 1..Len(input.supported) |-> FontLanguageOf(input.supported[k])]
       IN  tag' = [op |-> "FontLanguages",
                   locale |-> FontLanguageOf(input.requested),
                   supported |-> FontLanguages(parsed),
                   extended |-> FontLanguages(Append(parsed, FontLanguageOf(input.added)))]
    /\ pc' = "listed"
    /\ UNCHANGED <<input, proc, loop, context, opt, result>>

\* calcScoreFor of the requested tag against each list
CalcScoreFor ==
    /\ pc = "listed"
    /\ tag' = [op |-> "calcScoreFor", locale |-> tag.locale,
               supported |-> tag.supported, extended |-> tag.extended,
               score |-> calcScoreFor(tag.locale, tag.supported),
               scoreExtended |-> calcScoreFor(tag.locale, tag.extended)]
    /\ pc' = "scored"
    /\ UNCHANGED <<input, proc, loop, context, opt, result>>

NextScore == BuildLists \/ CalcScoreFor

SpecScore == InitScore /\ [][NextScore]_vars

----------------------------------------------------------------------------
(* What the claims speak of *)

TextLen == Len(input.text)

RECURSIVE SumSeq(_)
SumSeq(s) == IF s = <<>> THEN 0 ELSE Head(s) + SumSeq(Tail(s))

SumOfCharWidths == SumSeq(input.widths)

Candidates == context.candidates

NumCandidates == Len(context.candidates)

IsDesperate(c) == c.hyphenType = BREAK_AND_DONT_INSERT_HYPHEN

IsHyphenation(c) == c.hyphenType = BREAK_AND_INSERT_HYPHEN

RECURSIVE PathFrom(_, _)
\* the prev chain from candidate i back to candidate 0, as 0-based indices
\* in increasing order
PathFrom(breaksData, i) ==
    IF i <= 0 THEN <<0>> ELSE Append(PathFrom(breaksData, At(breaksData, i).prev), i)

ChosenPath == PathFrom(opt.breaksData, NumCandidates - 1)

TabOffsets == {o \in 0..(TextLen - 1) : At(input.text, o) = CHAR_TAB}

FirstTab == CHOOSE o \in TabOffsets : \A q \in TabOffsets : o <= q

RunEnds == {input.runs[k].end : k \in 1..Len(input.runs)}

----------------------------------------------------------------------------
(* C1 *)

\* what computeBreaks adds to the score for the line from candidate j to
\* candidate i, on a line of the given width
lineCost(j, i, width) ==
    LET k == [candidates |-> Candidates, strategy |-> opt.strategy,
              justified |-> input.justified, spaceWidth |-> context.spaceWidth, i |-> i]
        delta == At(Candidates, j).preBreak - (At(Candidates, i).postBreak - width)
        s == lineScore(k, j, delta)
    IN  s.widthScore + s.additionalPenalty + At(Candidates, i).penalty + context.linePenalty

RECURSIVE PathCost(_, _)
\* the total cost of a path, given as its 0-based candidates in order
PathCost(path, width) ==
    IF Len(path) < 2 THEN 0
    ELSE lineCost(path[1], path[2], width) + PathCost(Tail(path), width)

RECURSIVE MinCost(_, _)
\* the least total cost of a path from candidate 0 to candidate i
MinCost(i, width) ==
    IF i = 0 THEN 0
    ELSE LET via == {MinCost(j, width) + lineCost(j, i, width) : j \in 0..(i - 1)}
         IN  CHOOSE m \in via : \A x \in via : m <= x

IsPath(path) ==
    /\ path[1] = 0
    /\ Last(path) = NumCandidates - 1
    /\ \A k \in 1..(Len(path) - 1) : path[k] < path[k + 1]

\* C1 (as claimed): with one line width, no justification and preBreak and
\* postBreak that never decrease, the prev chain from the last candidate is a
\* path from candidate 0 to the last candidate whose total cost (width score,
\* candidate penalty and line penalty of each line) is the least of all such
\* paths.
C1_PathIsOptimal ==
    (/\ pc = "done" /\ NumCandidates > 1
     /\ input.lineWidth.first = input.lineWidth.rest /\ ~input.justified
     /\ NonDecreasing([k \in 1..NumCandidates |-> Candidates[k].preBreak])
     /\ NonDecreasing([k \in 1..NumCandidates |-> Candidates[k].postBreak]))
    => /\ IsPath(ChosenPath)
       /\ PathCost(ChosenPath, input.lineWidth.first)
             = MinCost(NumCandidates - 1, input.lineWidth.first)

----------------------------------------------------------------------------
(* C2 *)

\* the line width exceeds the paragraph, on every line
WidePage ==
    /\ input.lineWidth.first > SumOfCharWidths
    /\ input.lineWidth.rest > SumOfCharWidths

\* C2: a non-empty paragraph of one run, without hyphenation, whose line
\* widths all exceed the sum of its character widths, is returned as exactly
\* one line that ends at the end of the text, whatever the strategy and
\* whether justified or not.
C2_OneLine ==
    (pc = "done" /\ TextLen > 0 /\ Len(input.runs) = 1
        /\ input.frequency = "None" /\ WidePage)
    => result.breakPoints = <<TextLen>>

\* a justified, balanced paragraph with two word breaks before its end and a
\* penalty on each line, returned as one line
C2_Witness ==
    /\ pc = "done" /\ Len(input.runs) = 1 /\ input.frequency = "None" /\ WidePage
    /\ NumCandidates >= 4
    /\ input.justified /\ opt.strategy = "Balanced"
    /\ At(Candidates, 1).penalty > 0
    /\ Len(result.breakPoints) = 1

----------------------------------------------------------------------------
(* C3 *)

\* C3 (as claimed): for all candidates i < j, the line from i to j is not
\* of negative width: candidates[j].postBreak - candidates[i].preBreak >= 0.
C3_NoNegativeLine ==
    \A i \in 1..NumCandidates : \A j \in (i + 1)..NumCandidates :
        Candidates[j].postBreak - Candidates[i].preBreak >= 0

----------------------------------------------------------------------------
(* C5 *)

\* C5 (as claimed): the returned line widths sum to at most the sum of the
\* character widths.
C5_WidthsWithinText ==
    pc = "done" => SumSeq(result.widths) <= SumOfCharWidths

\* what the hyphen edits add at the hyphenation candidates of the path:
\* first + second - the width of the word context, which is
\* postBreak - preBreak of the candidate
HyphenExcess ==
    SumSeq([k \in 1..Len(ChosenPath) |->
              LET c == At(Candidates, ChosenPath[k])
              IN  IF IsHyphenation(c) THEN c.postBreak - c.preBreak ELSE 0])

\* C5 (amended): the returned line widths sum to at most the sum of the
\* character widths plus what the hyphen edits add at the hyphenation
\* candidates of the chosen path.
C5_WidthsWithinTextAndHyphens ==
    (pc = "done" /\ TextLen > 0)
    => SumSeq(result.widths) <= SumOfCharWidths + HyphenExcess

\* a path through a hyphenation candidate whose hyphen has a width, and lines
\* that sum to more than the characters
C5_Witness ==
    /\ pc = "done" /\ TextLen > 0
    /\ \E k \in 1..Len(ChosenPath) : IsHyphenation(At(Candidates, ChosenPath[k]))
    /\ HyphenExcess > 0
    /\ SumSeq(result.widths) = SumOfCharWidths + HyphenExcess

----------------------------------------------------------------------------
(* C7 *)

\* C7: when the text holds a TAB, breakLineOptimal fails at the first one: it
\* never returns, no result is built, the loop over the characters does not
\* get past the TAB, and no candidate lies beyond it.
C7_TabFails ==
    TabOffsets # {}
    => /\ pc \in {"populate", "aborted"}
       /\ pc = "aborted" => loop.i = FirstTab
       /\ loop.i <= FirstTab
       /\ result = EmptyResult
       /\ \A k \in 1..NumCandidates : Candidates[k].offset <= FirstTab

\* a paragraph that failed at a TAB after a word break had been emitted
C7_Witness ==
    /\ pc = "aborted"
    /\ FirstTab > 0
    /\ NumCandidates > 1

----------------------------------------------------------------------------
(* C4 *)

\* C4 (as claimed): the offsets of the candidates never decrease, from the
\* sentinel at 0 on, across words and runs, and of a desperate and a
\* hyphenation candidate at one offset the desperate one comes first.
C4_OffsetsInOrder ==
    /\ At(Candidates, 0).offset = 0
    /\ \A k \in 1..(NumCandidates - 1) : Candidates[k].offset <= Candidates[k + 1].offset
    /\ \A i \in 1..NumCandidates : \A j \in (i + 1)..NumCandidates :
          (Candidates[i].offset = Candidates[j].offset /\ IsHyphenation(Candidates[i]))
          => ~IsDesperate(Candidates[j])

----------------------------------------------------------------------------
(* C6 *)

\* the offsets at which the returned lines end
BreakPoints == {result.breakPoints[k] : k \in 1..Len(result.breakPoints)}

\* C6 (as claimed): without hyphenation, every returned break point other
\* than the end of the text is at an offset whose character has a width.
C6_BreaksAtWidths ==
    (pc = "done" /\ input.frequency = "None")
    => \A o \in BreakPoints : o # TextLen => At(input.widths, o) > 0

\* C6 (amended): without hyphenation, every returned break point other than
\* the end of a run, the end of the text among them, is at an offset whose
\* character has a width.
C6_BreaksAtWidthsOrRunEnds ==
    (pc = "done" /\ input.frequency = "None")
    => \A o \in BreakPoints : o \notin RunEnds => At(input.widths, o) > 0

\* a paragraph broken inside a run although a character of no width, not at
\* the start of a run, follows a character that a line may not hold
C6_Witness ==
    /\ pc = "done" /\ input.frequency = "None"
    /\ \E o \in BreakPoints : o \notin RunEnds
    /\ \E o \in 1..(TextLen - 1) :
          /\ o \notin RunEnds
          /\ At(input.widths, o) = 0
          /\ o \notin BreakPoints
          /\ input.lineWidth.first < SumOfCharWidths

----------------------------------------------------------------------------
(* C8, C9, C10 *)

InputPieces == Split(input, "-")

\* the classes of subtags, by their characters
Lower == {Ascii[k] : k \in (Ord("a") - 31)..(Ord("z") - 31)}

Upper == {Ascii[k] : k \in (Ord("A") - 31)..(Ord("Z") - 31)}

Digit == {Ascii[k] : k \in (Ord("0") - 31)..(Ord("9") - 31)}

IsLanguage(t) == Len(t) \in {2, 3} /\ \A k \in 1..Len(t) : t[k] \in Lower

IsScript(t) == Len(t) = 4 /\ t[1] \in Upper /\ \A k \in 2..4 : t[k] \in Lower

IsRegion(t) ==
    \/ Len(t) = 2 /\ \A k \in 1..2 : t[k] \in Upper
    \/ Len(t) = 3 /\ \A k \in 1..3 : t[k] \in Digit

IsVariant(t) == t \in VariantCodes

\* lang[-Script][-REGION][-variant], the variant only with the language de
IsValidTag(pieces) ==
    /\ Len(pieces) >= 1 /\ IsLanguage(pieces[1])
    /\ \E s \in BOOLEAN, r \in BOOLEAN, v \in BOOLEAN :
        LET n == 1 + (IF s THEN 1 ELSE 0) + (IF r THEN 1 ELSE 0) + (IF v THEN 1 ELSE 0)
            is == 2
            ir == is + (IF s THEN 1 ELSE 0)
            iv == ir + (IF r THEN 1 ELSE 0)
        IN  /\ Len(pieces) = n
            /\ s => IsScript(pieces[is])
            /\ r => IsRegion(pieces[ir])
            /\ v => (IsVariant(pieces[iv]) /\ pieces[1] = <<"d", "e">>)

\* C8: for every tag lang[-Script][-REGION][-variant] of valid subtags (the
\* variant 1901 or 1996 only with the language de), getString of the parsed
\* tag gives the input back; packing and unpacking are inverses on 2- and
\* 3-character codes.
C8_RoundTrip ==
    (pc = "printed" /\ IsValidTag(InputPieces))
    => /\ tag.string = input
       /\ unpackLanguage(tag.locale.mLanguage) = InputPieces[1]
       /\ Len(unpackLanguage(tag.locale.mLanguage)) = Len(InputPieces[1])

\* a German tag with script, 3-digit region and variant, printed as it came
C8_Witness ==
    /\ pc = "printed" /\ IsValidTag(InputPieces)
    /\ Len(InputPieces) = 4
    /\ Len(InputPieces[3]) = 3
    /\ tag.locale.mVariant # "NO_VARIANT"
    /\ tag.string = input

\* C9: when the first piece of the input is no language code, the tag is
\* built all the same, prints as "und", and its script, region, variant,
\* subScriptBits and emoji style are the defaults, whatever follows.
C9_NoLanguage ==
    (pc \in {"parsed", "printed"} /\ (InputPieces = <<>> \/ ~IsLanguage(InputPieces[1])))
    => /\ tag.locale = DefaultFontLanguage
       /\ tag.locale.mEmojiStyle = "EMSTYLE_EMPTY"
       /\ pc = "printed" => tag.string = <<"u", "n", "d">>

\* a first piece in title case followed by a script, a region and the emoji
\* extension, printed as "und"
C9_Witness ==
    /\ pc = "printed"
    /\ Len(InputPieces) >= 6
    /\ InputPieces[1] = <<"E", "n">>
    /\ IsScript(InputPieces[2]) /\ IsRegion(InputPieces[3])
    /\ InputPieces[4] = <<"u">>
    /\ tag.string = <<"u", "n", "d">>

\* an unknown subtag: no script, region or variant
IsUnknown(t) == ~IsScript(t) /\ ~IsRegion(t) /\ ~IsVariant(t)

\* the input is "L-X-R": a language, an unknown subtag, and a script, a
\* region or (with de) a variant
IsLXR ==
    /\ Len(InputPieces) = 3
    /\ IsLanguage(InputPieces[1])
    /\ IsUnknown(InputPieces[2])
    /\ \/ IsScript(InputPieces[3])
       \/ IsRegion(InputPieces[3])
       \/ (IsVariant(InputPieces[3]) /\ InputPieces[1] = <<"d", "e">>)

SameSubtags(a, b) ==
    a.mScript = b.mScript /\ a.mRegion = b.mRegion /\ a.mVariant = b.mVariant

\* C10 (as claimed): an unknown subtag between the language and a later valid
\* subtag is skipped: "L-X-R" gives the same script, region and variant as
\* "L-R".
C10_UnknownSkipped ==
    (pc = "parsed" /\ IsLXR)
    => SameSubtags(tag.locale,
                   FontLanguageOf(Join(<<InputPieces[1], InputPieces[3]>>, "-")))

\* C10 (amended): an unknown subtag right after the language ends the reading
\* of script, region and variant: "L-X-R" gives the same script, region and
\* variant as "L", all absent, whatever follows X.
C10_UnknownEndsSubtags ==
    (pc = "parsed" /\ Len(InputPieces) >= 2 /\ IsLanguage(InputPieces[1])
        /\ IsUnknown(InputPieces[2]))
    => /\ SameSubtags(tag.locale, FontLanguageOf(InputPieces[1]))
       /\ SameSubtags(tag.locale, DefaultFontLanguage)

\* "L-X-R" parsed, with R a region that "L-R" has and the parsed tag lacks
C10_Witness ==
    /\ pc = "parsed" /\ IsLXR
    /\ IsRegion(InputPieces[3])
    /\ tag.locale.mRegion = NO_REGION
    /\ FontLanguageOf(Join(<<InputPieces[1], InputPieces[3]>>, "-")).mRegion # NO_REGION

----------------------------------------------------------------------------
(* C11 *)

RECURSIVE JoinWithFrom(_, _, _)
JoinWithFrom(pieces, k, delimiters) ==
    IF k > Len(pieces) THEN <<>>
    ELSE <<delimiters[k - 1]>> \o pieces[k] \o JoinWithFrom(pieces, k + 1, delimiters)

\* the pieces with delimiters[k] between piece k and piece k + 1
JoinWith(pieces, delimiters) ==
    IF pieces = <<>> THEN <<>> ELSE pieces[1] \o JoinWithFrom(pieces, 2, delimiters)

\* the choices of '-' or '_' for each delimiter of the input
DelimiterChoices == [1..(Len(InputPieces) - 1) -> {"-", "_"}]

SameTag(a, b) ==
    /\ a.mLanguage = b.mLanguage /\ a.mScript = b.mScript /\ a.mRegion = b.mRegion
    /\ a.mVariant = b.mVariant /\ a.mEmojiStyle = b.mEmojiStyle

\* C11: for every valid tag lang[-Script][-REGION][-variant], the input with
\* any of its '-' delimiters replaced by '_' is parsed to a tag with the same
\* language, script, region, variant and emoji style as the input itself.
C11_UnderscoreDelimits ==
    (pc = "parsed" /\ IsValidTag(InputPieces))
    => \A d \in DelimiterChoices :
           SameTag(FontLanguageOf(JoinWith(InputPieces, d)), tag.locale)

----------------------------------------------------------------------------
(* C12 *)

\* the word-break candidates emitted so far, as 0-based indices
WordBreaks == {k \in 1..(NumCandidates - 1) : At(Candidates, k).hyphenType = DONT_BREAK}

\* the characters below offset o that are no line-end spaces
InkBelow(o) == {k \in 0..(o - 1) : ~isLineEndSpace(At(input.text, k))}

\* one past the last of them, 0 when there is none
InkEnd(o) ==
    IF InkBelow(o) = {} THEN 0
    ELSE 1 + CHOOSE k \in InkBelow(o) : \A q \in InkBelow(o) : q <= k

\* C12: every word-break candidate at offset o has preBreak = the sum of
\* widths[0..o) and postBreak = the sum of widths[0..k], k the last index
\* below o whose character is no line-end space (0 when there is none); so a
\* returned line from the word break at offset a to the word break at offset
\* o, with a character other than a line-end space in it, is as wide as the
\* characters from a to k, the line-end spaces at its end left out.
C12_WordBreakWidths ==
    /\ \A c \in WordBreaks :
          LET o == At(Candidates, c).offset
          IN  /\ At(Candidates, c).preBreak = SumRange(input.widths, 0, o)
              /\ At(Candidates, c).postBreak = SumRange(input.widths, 0, InkEnd(o))
    /\ pc = "done" /\ TextLen > 0 =>
          \A n \in 2..Len(ChosenPath) :
              LET j == ChosenPath[n - 1]
                  i == ChosenPath[n]
                  a == At(Candidates, j).offset
                  o == At(Candidates, i).offset
              IN  (i \in WordBreaks /\ j \in WordBreaks \cup {0} /\ a < InkEnd(o))
                  => result.widths[n - 1] = SumRange(input.widths, a, InkEnd(o))

\* a returned line that ends at a word break after a line-end space of
\* width 1, and is the narrower for it
C12_Witness ==
    /\ pc = "done" /\ TextLen > 0
    /\ \E n \in 2..Len(ChosenPath) :
          LET j == ChosenPath[n - 1]
              i == ChosenPath[n]
              a == At(Candidates, j).offset
              o == At(Candidates, i).offset
          IN  /\ i \in WordBreaks /\ j \in WordBreaks \cup {0}
              /\ a < InkEnd(o) /\ InkEnd(o) < o
              /\ result.widths[n - 1] = SumRange(input.widths, a, o) - (o - InkEnd(o))
              /\ result.widths[n - 1] > 0

----------------------------------------------------------------------------
(* C13 *)

\* the added tag brings a second language into a list of one language
AddsLanguage ==
    /\ tag.supported.mIsAllTheSameLanguage
    /\ Last(tag.extended.mLanguages).mLanguage # At(tag.supported.mLanguages, 0).mLanguage

\* C13 (as claimed): the score is in 0..4, and the score against the list
\* with any tag appended is at least the score against the list.
C13_ScoreMonotone ==
    pc = "scored"
    => /\ tag.score \in 0..4 /\ tag.scoreExtended \in 0..4
       /\ tag.scoreExtended >= tag.score

\* C13 (amended): the score is in 0..4; appending a tag does not lower it when
\* the tag has the language of the list's first tag or the list already holds
\* two languages; when the tag brings a second language into a list of one
\* language the score may fall, from 3 only, and not below 1.
C13_ScoreMonotoneSameLanguage ==
    pc = "scored"
    => /\ tag.score \in 0..4 /\ tag.scoreExtended \in 0..4
       /\ ~AddsLanguage => tag.scoreExtended >= tag.score
       /\ tag.scoreExtended < tag.score => (tag.score = 3 /\ tag.scoreExtended \in {1, 2})

\* a list of one language whose scripts only together cover the requested
\* one, scored 3, and scored 3 again with a tag of that language appended
C13_Witness ==
    /\ pc = "scored"
    /\ Len(tag.supported.mLanguages) = 2
    /\ \A k \in 1..2 :
          /\ ~isEqualScript(tag.locale, tag.supported.mLanguages[k])
          /\ ~supportsScript(tag.supported.mLanguages[k].mSubScriptBits,
                             tag.locale.mSubScriptBits)
    /\ ~AddsLanguage
    /\ Last(tag.extended.mLanguages).mSubScriptBits = {}
    /\ tag.score = 3 /\ tag.scoreExtended = 3

----------------------------------------------------------------------------
(* C14 *)

\* the last candidate, and the two before it: the hyphenation and the other
LastCand == NumCandidates - 1

HyphenPred == CHOOSE j \in 1..2 : IsHyphenation(At(Candidates, j))

PlainPred == CHOOSE j \in 1..2 : ~IsHyphenation(At(Candidates, j))

\* the line from candidate j to the last candidate is not overfull
FitsLastLine(j) ==
    At(Candidates, LastCand).postBreak - At(Candidates, j).preBreak
        <= getAt(input.lineWidth, At(opt.breaksData, j).lineNumber)

\* what the path to the word break carries more than the path to the
\* hyphenation, the hyphenation's own penalty left aside
ExtraScore ==
    At(opt.breaksData, PlainPred).score
        - (At(opt.breaksData, HyphenPred).score - At(Candidates, HyphenPred).penalty)

\* computeBreaks has run with strategy high-quality, and the last line can
\* start at the hyphenation or at the word break and nowhere else
TwoLastLines ==
    /\ pc = "done" /\ opt.strategy = "HighQuality"
    /\ NumCandidates = 4
    /\ FitsLastLine(HyphenPred) /\ FitsLastLine(PlainPred)
    /\ ~FitsLastLine(0)

\* C14 (as claimed): with strategy high-quality, when the last line can start
\* at a hyphenation of penalty p or at a word break of penalty 0 whose path
\* scores w^2 more, the word break is chosen iff w^2 < 3 * p.
C14_LastLineThreePenalties ==
    TwoLastLines
    => (At(opt.breaksData, LastCand).prev = PlainPred
           <=> ExtraScore < 3 * At(Candidates, HyphenPred).penalty)

\* C14 (amended): ... the word break is chosen iff w^2 < 5 * p: the
\* hyphenation pays its penalty p once as a candidate and 4 * p more for
\* starting the last line.
C14_LastLineFivePenalties ==
    TwoLastLines
    => /\ At(opt.breaksData, LastCand).prev \in {PlainPred, HyphenPred}
       /\ At(opt.breaksData, LastCand).prev = PlainPred
              <=> ExtraScore < (1 + LAST_LINE_PENALTY_MULTIPLIER)
                                   * At(Candidates, HyphenPred).penalty

\* the word break chosen although its path scores between 3 * p and 5 * p more
C14_Witness ==
    /\ TwoLastLines
    /\ ExtraScore >= 3 * At(Candidates, HyphenPred).penalty
    /\ ExtraScore < 5 * At(Candidates, HyphenPred).penalty
    /\ At(opt.breaksData, LastCand).prev = PlainPred

----------------------------------------------------------------------------
(* C15 *)

----------------------------------------------------------------------------
(* C16 *)

\* C16: with line widths that vary, every predecessor j that is scored for a
\* candidate i is scored with the slack on the line it would start:
\* delta = candidates[j].preBreak
\*             - (candidates[i].postBreak - lineWidth.at(lineNumber[j])).
C16_SlackOfOwnLine ==
    pc = "done"
    => \A n \in 1..Len(opt.trace) : \A m \in 1..Len(opt.trace[n].scored) :
           LET i == opt.trace[n].i
               s == opt.trace[n].scored[m]
           IN  s.delta = At(Candidates, s.j).preBreak
                             - (At(Candidates, i).postBreak
                                    - getAt(input.lineWidth, s.lineNumber))

----------------------------------------------------------------------------
(* C17 *)

\* C17: in the list that populateCandidates builds, postBreak never decreases
\* from a candidate to the next, when every hyphenated piece measures at
\* least the sum of its characters (as every measurement of the model does).
C17_PostBreakNonDecreasing ==
    pc \in {"compute", "done"}
    => NonDecreasing([k \in 1..NumCandidates |-> Candidates[k].postBreak])

----------------------------------------------------------------------------
(* C18 *)

\* the line from candidate j to candidate i is not wider than the line width
FitsLine(j, i) ==
    At(Candidates, i).postBreak - At(Candidates, j).preBreak <= input.lineWidth.first

RECURSIVE FitsUpTo(_)
\* a path from candidate 0 to candidate i exists in which every line fits
FitsUpTo(i) == i = 0 \/ \E j \in 0..(i - 1) : FitsUpTo(j) /\ FitsLine(j, i)

\* C18: for text that is not justified, with one line width, whenever some
\* path from candidate 0 to the last candidate has no line wider than the
\* line width, the chosen path has none either.
C18_NoOverfullWhenAvoidable ==
    (/\ pc = "done" /\ TextLen > 0
     /\ ~input.justified /\ input.lineWidth.first = input.lineWidth.rest
     /\ FitsUpTo(NumCandidates - 1))
    => \A n \in 1..Len(result.widths) : result.widths[n] <= input.lineWidth.first

----------------------------------------------------------------------------
(* C19 *)

\* the word spaces (U+0020, U+00A0) of text[0..o)
WordSpacesBelow(o) ==
    Cardinality({q \in 0..(o - 1) : At(input.text, q) \in {CHAR_SPACE, CHAR_NBSP}})

\* C19: every candidate at an offset o, be it a word break, a hyphenation or a
\* desperate break, has preSpaceCount = the number of word spaces in
\* text[0..o), whatever follows o in its word context.
C19_PreSpaceCount ==
    \A k \in 1..NumCandidates :
        Candidates[k].preSpaceCount = WordSpacesBelow(Candidates[k].offset)

----------------------------------------------------------------------------
(* C20 *)

\* active at the start of each outer iteration, and after the last one
ActiveValues == [n \in 1..Len(opt.trace) |-> opt.trace[n].active] \o <<opt.active>>

\* C20: in computeBreaks active never decreases and is below i at the start
\* of every outer iteration i, at least one predecessor is scored in each,
\* and prev[i] < i for every i >= 1; so finishBreaksOptimal walks strictly
\* decreasing indices from the last candidate down to candidate 0, and it
\* returns exactly lineNumber[n-1] lines.
C20_ActiveAndPrevChain ==
    (pc = "done" /\ TextLen > 0)
    => /\ NonDecreasing(ActiveValues)
       /\ Len(opt.trace) = NumCandidates - 1
       /\ \A n \in 1..Len(opt.trace) :
             /\ opt.trace[n].i = n
             /\ opt.trace[n].active < opt.trace[n].i
             /\ Len(opt.trace[n].scored) >= 1
       /\ \A i \in 1..(NumCandidates - 1) : At(opt.breaksData, i).prev < i
       /\ IsPath(ChosenPath)
       /\ Len(result.breakPoints) = Len(ChosenPath) - 1
       /\ Len(result.breakPoints) = At(opt.breaksData, NumCandidates - 1).lineNumber

\* a paragraph returned in three lines, computed with active moved up twice
C20_Witness ==
    /\ pc = "done" /\ TextLen > 0
    /\ Len(result.breakPoints) = 3
    /\ At(opt.breaksData, NumCandidates - 1).lineNumber = 3
    /\ Cardinality({ActiveValues[n] : n \in 1..Len(ActiveValues)}) >= 3

----------------------------------------------------------------------------
(* C21 *)

\* the word breaker has reported the end of the text as a boundary
EndIsBoundary == proc.nextWordBreak = TextLen

\* C21: for a text that is not empty and whose end the word breaker reports
\* as a boundary, the returned breakPoints increase strictly (no two chosen
\* candidates share an offset, so no line is empty) and the last of them is
\* the length of the text.
C21_LinesPartitionText ==
    (pc = "done" /\ TextLen > 0 /\ EndIsBoundary)
    => /\ result.breakPoints # <<>>
       /\ \A n \in 1..(Len(result.breakPoints) - 1) :
             result.breakPoints[n] < result.breakPoints[n + 1]
       /\ result.breakPoints[1] > 0
       /\ Last(result.breakPoints) = TextLen

====
